---- MODULE Spec2Model ----
(***************************************************************************)
(* Protocol layer of gemini-cli: the server-side ToolProxy and CoreServer, *)
(* the abstract ProtocolClient and its in-process LoopbackProtocolClient.  *)
(*                                                                         *)
(* JavaScript runs each handler to its first await without interruption,   *)
(* so one action is one API call or one timer/continuation, including      *)
(* every synchronous call it makes: CoreServer.sendMessage invokes the     *)
(* subscribed handlers at once, and LoopbackProtocolClient.sendMessage     *)
(* enters CoreServer.handleMessage at once.  The synchronous call chains   *)
(* are operators from state record to state record; an action applies one  *)
(* to the current state and commits the result.                            *)
(***************************************************************************)
EXTENDS Integers, Sequences, FiniteSets, TLC

\* ---------------------------------------------------------------- bounds
MaxToolCalls == 2
MaxGenCalls == 2
MaxConnects == 2
MaxHandlers == 1
MaxInFlight == 2
MaxCalls == 3
MaxStreams == 2

\* ---------------------------------------------------------------- values
\* request ids: one more than the calls made, so that some id is never issued
ToolRequestIds == 1..(MaxToolCalls + 1)
GenRequestIds == 1..(MaxGenCalls + 1)
Clients == {"c1", "c2"}
ClientIds == {"loopback", "remote"}
ToolNames == {"A", "B"}

Undefined == "<undefined>"
Null == "<null>"
\* tool results, error strings (the empty string is a string), payloads
Results == {"r1", "r2"}
ErrorStrings == {"", "e1"}
Payloads == {"{text}", "{text,error}"}
Contents == {"ping"}

\* JavaScript truthiness of the values above: if (response.error) ...
Truthy(v) == v \notin {Undefined, Null, ""}

\* response?.error on a resolver argument that is an opaque payload
ErrorProperty(p) == IF p = "{text,error}" THEN "inner" ELSE Undefined

\* tool lists a discovery message may carry
\* ToolDefinition, without its parameter schema
ToolDefinition(name) == [name |-> name, description |-> "d"]
ToolDefinitions == {ToolDefinition(n) : n \in ToolNames}
ToolLists == {<<>>} \cup {<<a>> : a \in ToolDefinitions}
               \cup {<<a, b>> : a \in ToolDefinitions, b \in ToolDefinitions}

\* LocalToolExecutor.getToolDefinitions of the executor given to a client
ExecutorTools == <<ToolDefinition("A"), ToolDefinition("B")>>

\* ---------------------------------------------- JavaScript values
\* the values messages.ts is applied to, each tagged with its kind
JSUndefined == [undefined |-> TRUE]
JSNull == [null |-> TRUE]
Str(s) == [string |-> s]
Num(n) == [number |-> n]
Bool(b) == [boolean |-> b]
Obj(properties) == [object |-> properties]

\* typeof v
typeof(v) ==
  IF "null" \in DOMAIN v THEN "object" ELSE CHOOSE t \in DOMAIN v : TRUE

\* ToBoolean(v), as `&&` applies it
ToBoolean(v) ==
  CASE "undefined" \in DOMAIN v -> FALSE
    [] "null" \in DOMAIN v -> FALSE
    [] "string" \in DOMAIN v -> v.string # ""
    [] "number" \in DOMAIN v -> v.number # 0
    [] "boolean" \in DOMAIN v -> v.boolean
    [] OTHER -> TRUE

\* v.p for a v that is neither null nor undefined: a missing property, and
\* any property of a primitive used here, reads as undefined
Get(v, p) ==
  IF "object" \in DOMAIN v /\ p \in DOMAIN v.object
    THEN v.object[p]
    ELSE JSUndefined

\* what id, type and timestamp are drawn from, and the messages made of
\* them: objects holding any of the three properties, and some non-objects
PropertyValues == {JSUndefined, JSNull, Str(""), Str("a"), Num(0), Num(1)}
Properties == {"id", "type", "timestamp"}
Objects ==
  {Obj(f) : f \in UNION {[P -> PropertyValues] : P \in SUBSET Properties}}
ValidateInputs == Objects \cup {JSUndefined, JSNull, Str(""), Str("a"), Num(0)}

\* what generateId() and Date.now() may return: Math.random() lies in
\* [0, 1), and 0 twice gives the empty string
GeneratedIds == {"", "k1", "k2"}
Timestamps == {1, 2}
\* arguments callers pass to the factories
Arguments == {JSUndefined, Str("a"), Obj([x |-> Num(1)])}
RequestIds == {Str(id) : id \in GeneratedIds}

\* ----------------------------------------------------------------- maps
Put(f, k, v) == [x \in DOMAIN f \cup {k} |-> IF x = k THEN v ELSE f[x]]
Remove(f, k) == [x \in DOMAIN f \ {k} |-> f[x]]
EmptyMap == [x \in {} |-> Undefined]

VARIABLES
  pendingRequests,        \* ToolProxy.pendingRequests: id -> executeTool call
  clientTools,            \* ToolProxy.clientTools: clientId -> tools
  toolCalls,              \* the promises executeTool returned, with timers
  warned,                 \* the id of ToolProxy's latest unknown-id warning
  messageHandlers,        \* CoreServer.messageHandlers, in insertion order
  geminiClient,           \* CoreServer.geminiClient is initialized
  engineTasks,            \* generations awaiting the engine
  clientMessageHandlers,  \* LoopbackProtocolClient.messageHandlers (size)
  clientPendingRequests,  \* ProtocolClient.pendingRequests: id -> call
  genCalls,               \* the promises generateContent returned
  toolExecutor,           \* ProtocolClient.toolExecutor is set
  toolRequestHandler,     \* ProtocolClient.toolRequestHandler is set
  execTasks,              \* tool executions awaiting executor or handler
  thrown,                 \* what the most recent call or callback threw
  lastCall,               \* the name of the most recent call or callback
  trace,                  \* what the most recent call sent, received, warned
  connected,              \* connect() was called last, not disconnect()
  streams,                \* the generators generateContentStream returned
  probe,                  \* the latest application of a messages.ts function
  arrivals,               \* the calls of server.handleMessage made within
                          \* the most recent call, in order
  handlerThrows           \* the handler given to client.onMessage throws

vars == <<pendingRequests, clientTools, toolCalls, warned, messageHandlers,
          geminiClient, engineTasks, clientMessageHandlers,
          clientPendingRequests, genCalls, toolExecutor, toolRequestHandler,
          execTasks, thrown, lastCall, trace, connected, streams, probe,
          arrivals, handlerThrows>>

\* the mutable state as one record, for the synchronous call chains
State ==
  [pendingRequests |-> pendingRequests, clientTools |-> clientTools,
   toolCalls |-> toolCalls, warned |-> warned,
   messageHandlers |-> messageHandlers, geminiClient |-> geminiClient,
   engineTasks |-> engineTasks,
   clientMessageHandlers |-> clientMessageHandlers,
   clientPendingRequests |-> clientPendingRequests, genCalls |-> genCalls,
   toolExecutor |-> toolExecutor, toolRequestHandler |-> toolRequestHandler,
   execTasks |-> execTasks, thrown |-> thrown, lastCall |-> lastCall,
   trace |-> trace, connected |-> connected, streams |-> streams,
   probe |-> probe, arrivals |-> arrivals, handlerThrows |-> handlerThrows]

\* the state at the start of a call or callback: nothing thrown, sent,
\* received or warned yet
Call(name) ==
  [State EXCEPT !.thrown = Undefined, !.lastCall = name, !.trace = <<>>,
                !.arrivals = <<>>]

Commit(s) ==
  /\ pendingRequests' = s.pendingRequests
  /\ clientTools' = s.clientTools
  /\ toolCalls' = s.toolCalls
  /\ warned' = s.warned
  /\ messageHandlers' = s.messageHandlers
  /\ geminiClient' = s.geminiClient
  /\ engineTasks' = s.engineTasks
  /\ clientMessageHandlers' = s.clientMessageHandlers
  /\ clientPendingRequests' = s.clientPendingRequests
  /\ genCalls' = s.genCalls
  /\ toolExecutor' = s.toolExecutor
  /\ toolRequestHandler' = s.toolRequestHandler
  /\ execTasks' = s.execTasks
  /\ thrown' = s.thrown
  /\ lastCall' = s.lastCall
  /\ trace' = s.trace
  /\ connected' = s.connected
  /\ streams' = s.streams
  /\ probe' = s.probe
  /\ arrivals' = s.arrivals
  /\ handlerThrows' = s.handlerThrows

\* ------------------------------------------------------------- promises
\* resolve/reject of a promise that is already settled has no effect
Settle(call, state, value) ==
  IF call.promise = "pending"
    THEN [call EXCEPT !.promise = state, !.value = value]
    ELSE call

\* clearTimeout of a timer that already fired has no effect
ClearTimeout(call) ==
  IF call.timer = "armed" THEN [call EXCEPT !.timer = "cleared"] ELSE call

\* generateId: a random 26-character string, taken not to repeat; ids are
\* opaque, so the least unused one stands for the fresh string
generateId(used) ==
  CHOOSE id \in 1..(Cardinality(used) + 1) :
    /\ id \notin used
    /\ \A other \in 1..(Cardinality(used) + 1) : other \notin used => id <= other

ToolIds == {toolCalls[k].id : k \in DOMAIN toolCalls}
GenIds == {genCalls[g].id : g \in DOMAIN genCalls}

\* ------------------------------------------------------------- messages
ToolExecutionRequest(id, tool) ==
  [type |-> "tool_execution_request", id |-> id, tool |-> tool]
ToolExecutionResponse(requestId, result, error) ==
  [type |-> "tool_execution_response", requestId |-> requestId,
   result |-> result, error |-> error]
ToolDiscoveryMessage(tools) == [type |-> "tool_discovery", tools |-> tools]
GenerateContentRequest(id, contents) ==
  [type |-> "generate_content_request", id |-> id, contents |-> contents]
GenerateContentResponse(requestId, response, error) ==
  [type |-> "generate_content_response", requestId |-> requestId,
   response |-> response, error |-> error]
UnknownMessage == [type |-> "unknown"]
\* a response carries a result or an error, not both and not neither
CarriesOne(m) == ~((m.result # Undefined) <=> (m.error # Undefined))

\* ---------------------------------------------------- what a call does
\* server.sendMessage(clientId, message) was called
ServerSend(clientId, message) ==
  [op |-> "server.sendMessage", clientId |-> clientId, message |-> message]
\* the closure client c subscribed was invoked: c.handleMessage(message)
ClientReceive(c, message) ==
  [op |-> "client.handleMessage", client |-> c, message |-> message]
\* client c handed message to server.handleMessage(message, 'loopback')
ClientSend(c, message) ==
  [op |-> "client.sendMessage", client |-> c, message |-> message]
\* console.warn(text)
Warn(text) == [op |-> "console.warn", text |-> text]
Log(s, event) == [s EXCEPT !.trace = Append(@, event)]

\* ---------------------------------------------------------- messages.ts
\* the factories, with the id generateId() returned and the time
\* Date.now() returned as explicit inputs
createGenerateContentRequest(id, now, contents, config) ==
  Obj([id |-> Str(id), type |-> Str("generate_content_request"),
       timestamp |-> Num(now), contents |-> contents, config |-> config])

createToolExecutionRequest(id, now, tool, parameters) ==
  Obj([id |-> Str(id), type |-> Str("tool_execution_request"),
       timestamp |-> Num(now), tool |-> tool, parameters |-> parameters])

\* a response factory that files the fresh id as the request's
CreateToolExecutionResponse_OwnId(id, now, requestId, result, error) ==
  Obj([id |-> Str(id), type |-> Str("tool_execution_response"),
       timestamp |-> Num(now), requestId |-> Str(id), result |-> result,
       error |-> error])

createToolExecutionResponse(id, now, requestId, result, error) ==
  Obj([id |-> Str(id), type |-> Str("tool_execution_response"),
       timestamp |-> Num(now), requestId |-> requestId, result |-> result,
       error |-> error])

createStreamingResponse(id, now, requestId, chunk, isComplete) ==
  Obj([id |-> Str(id), type |-> Str("streaming_response"),
       timestamp |-> Num(now), requestId |-> requestId, chunk |-> chunk,
       isComplete |-> isComplete])

\* validateProtocolMessage: message && typeof message.id === 'string' &&
\* typeof message.type === 'string' && typeof message.timestamp ===
\* 'number'; `&&` gives back a falsy message itself
validateProtocolMessage(message) ==
  IF ~ToBoolean(message)
    THEN message
    ELSE Bool(/\ typeof(Get(message, "id")) = "string"
              /\ typeof(Get(message, "type")) = "string"
              /\ typeof(Get(message, "timestamp")) = "number")

\* an application of one of these functions: its name, its arguments, what
\* it returned, and the message an argument was read from, if any
Applied(fn, args, out, of) == [fn |-> fn, args |-> args, out |-> out,
                               of |-> of]
NoProbe == Applied("none", <<>>, JSUndefined, JSUndefined)

\* ------------------------------------------------------------ ToolProxy
\* handleToolResponse resolving with a misspelt field: response.results
HandleToolResponse_WrongField(s, response) ==
  IF response.requestId \notin DOMAIN s.pendingRequests
    THEN [s EXCEPT !.warned = {response.requestId}]
    ELSE LET k == s.pendingRequests[response.requestId]
             cleared == ClearTimeout(s.toolCalls[k])
             settled == IF Truthy(response.error)
                          THEN Settle(cleared, "rejected", response.error)
                          ELSE Settle(cleared, "resolved", Undefined)
         IN [s EXCEPT !.pendingRequests = Remove(@, response.requestId),
                      !.toolCalls[k] = settled]

\* handleToolResponse without its guard: pending.timeout of undefined throws
HandleToolResponse_NoGuard(s, response) ==
  IF response.requestId \notin DOMAIN s.pendingRequests
    THEN [s EXCEPT !.thrown = "TypeError"]
    ELSE LET k == s.pendingRequests[response.requestId]
             cleared == ClearTimeout(s.toolCalls[k])
             settled == IF Truthy(response.error)
                          THEN Settle(cleared, "rejected", response.error)
                          ELSE Settle(cleared, "resolved", response.result)
         IN [s EXCEPT !.pendingRequests = Remove(@, response.requestId),
                      !.toolCalls[k] = settled]

\* handleToolResponse settling the oldest pending call, whatever the id
HandleToolResponse_ByArrival(s, response) ==
  IF DOMAIN s.pendingRequests = {}
    THEN [s EXCEPT !.warned = {response.requestId}]
    ELSE LET id == CHOOSE x \in DOMAIN s.pendingRequests :
                     \A y \in DOMAIN s.pendingRequests : x <= y
             k == s.pendingRequests[id]
             cleared == ClearTimeout(s.toolCalls[k])
             settled == IF Truthy(response.error)
                          THEN Settle(cleared, "rejected", response.error)
                          ELSE Settle(cleared, "resolved", response.result)
         IN [s EXCEPT !.pendingRequests = Remove(@, id),
                      !.toolCalls[k] = settled]

\* handleToolResponse without clearTimeout(pending.timeout)
HandleToolResponse_NoClearTimeout(s, response) ==
  IF response.requestId \notin DOMAIN s.pendingRequests
    THEN [s EXCEPT !.warned = {response.requestId}]
    ELSE LET k == s.pendingRequests[response.requestId]
             settled == IF Truthy(response.error)
                          THEN Settle(s.toolCalls[k], "rejected",
                                      response.error)
                          ELSE Settle(s.toolCalls[k], "resolved",
                                      response.result)
         IN [s EXCEPT !.pendingRequests = Remove(@, response.requestId),
                      !.toolCalls[k] = settled]

\* handleToolResponse: unknown id -> warn and return; else clear the
\* timer, delete the entry, reject on a truthy error, else resolve
ToolProxy_handleToolResponse(s, response) ==
  IF response.requestId \notin DOMAIN s.pendingRequests
    THEN [s EXCEPT !.warned = {response.requestId}]
    ELSE LET k == s.pendingRequests[response.requestId]
             cleared == ClearTimeout(s.toolCalls[k])
             settled == IF Truthy(response.error)
                          THEN Settle(cleared, "rejected", response.error)
                          ELSE Settle(cleared, "resolved", response.result)
         IN [s EXCEPT !.pendingRequests = Remove(@, response.requestId),
                      !.toolCalls[k] = settled]

\* handleToolDiscovery merging the announced tools into the stored ones
HandleToolDiscovery_Merges(s, clientId, discovery) ==
  [s EXCEPT !.clientTools =
     Put(@, clientId,
         (IF clientId \in DOMAIN @ THEN @[clientId] ELSE <<>>)
           \o discovery.tools)]

\* handleToolDiscovery: clientTools.set(clientId, discovery.tools)
ToolProxy_handleToolDiscovery(s, clientId, discovery) ==
  [s EXCEPT !.clientTools = Put(@, clientId, discovery.tools)]

\* a lookup that ignores whose tools it is asked for
GetClientTools_AnyClient(clientId) ==
  IF DOMAIN clientTools = {}
    THEN <<>>
    ELSE clientTools[CHOOSE c \in DOMAIN clientTools : TRUE]

\* getClientTools: clientTools.get(clientId) || []
getClientTools(clientId) ==
  IF clientId \in DOMAIN clientTools THEN clientTools[clientId] ELSE <<>>

\* hasClientTool: tools.some(tool => tool.name === toolName)
hasClientTool(clientId, toolName) ==
  \E i \in DOMAIN getClientTools(clientId) :
     getClientTools(clientId)[i].name = toolName

\* getClientToolDefinition: tools.find(tool => tool.name === toolName),
\* the first such tool, or undefined
getClientToolDefinition(clientId, toolName) ==
  LET tools == getClientTools(clientId)
      found == {i \in DOMAIN tools : tools[i].name = toolName}
  IN IF found = {}
       THEN Undefined
       ELSE tools[CHOOSE i \in found : \A j \in found : i <= j]

\* -------------------------------------------- synchronous call chains
RECURSIVE CoreServer_sendMessage(_, _, _)

\* CoreServer.handleGenerateContent up to its first await: a server that
\* was never started has no geminiClient, the call throws inside the try
\* and the catch sends the error response at once
CoreServer_handleGenerateContent(s, request, clientId) ==
  IF ~s.geminiClient
    THEN CoreServer_sendMessage(s, clientId,
           GenerateContentResponse(request.id, Null, "TypeError"))
    ELSE [s EXCEPT !.engineTasks = @ \cup
            {[requestId |-> request.id, clientId |-> clientId,
              contents |-> request.contents]}]

\* handleMessage with a default branch that throws
HandleMessage_ThrowsOnUnknown(s0, message, clientId) ==
  LET s == [s0 EXCEPT !.arrivals =
              Append(@, [clientId |-> clientId, message |-> message])]
  IN CASE message.type = "tool_discovery" ->
            ToolProxy_handleToolDiscovery(s, clientId, message)
       [] message.type = "tool_execution_response" ->
            ToolProxy_handleToolResponse(s, message)
       [] message.type = "generate_content_request" ->
            CoreServer_handleGenerateContent(s, message, clientId)
       [] OTHER -> [s EXCEPT !.thrown = "Unknown message type"]

\* CoreServer.handleMessage: switch (message.type)
CoreServer_handleMessage(s0, message, clientId) ==
  LET s == [s0 EXCEPT !.arrivals =
              Append(@, [clientId |-> clientId, message |-> message])]
  IN CASE message.type = "tool_discovery" ->
            ToolProxy_handleToolDiscovery(s, clientId, message)
       [] message.type = "tool_execution_response" ->
            ToolProxy_handleToolResponse(s, message)
       [] message.type = "generate_content_request" ->
            CoreServer_handleGenerateContent(s, message, clientId)
       [] OTHER -> Log(s, Warn("Unknown message type: " \o message.type))

\* a sendMessage that keeps the message for later instead of handing it on
Loopback_sendMessage_Holds(s, c, message) == Log(s, ClientSend(c, message))

\* LoopbackProtocolClient.sendMessage: server.handleMessage(m, 'loopback')
Loopback_sendMessage(s, c, message) ==
  CoreServer_handleMessage(Log(s, ClientSend(c, message)), message,
                           "loopback")

\* a tool execution handed to the executor or the legacy handler
ExecTask(s, c, request, via) ==
  [client |-> c, requestId |-> request.id, tool |-> request.tool,
   via |-> via,
   n |-> 1 + Cardinality({t \in s.execTasks :
                 t.client = c /\ t.requestId = request.id})]

\* handleToolRequest dropping a request it has nothing to answer with
HandleToolRequest_DropsUnconfigured(s, c, request) ==
  IF s.toolExecutor[c]
    THEN [s EXCEPT !.execTasks = @ \cup {ExecTask(s, c, request, "executor")}]
  ELSE IF s.toolRequestHandler[c]
    THEN [s EXCEPT !.execTasks = @ \cup {ExecTask(s, c, request, "handler")}]
  ELSE s

\* ProtocolClient.handleToolRequest up to its first await
ProtocolClient_handleToolRequest(s, c, request) ==
  IF s.toolExecutor[c]
    THEN [s EXCEPT !.execTasks = @ \cup {ExecTask(s, c, request, "executor")}]
  ELSE IF s.toolRequestHandler[c]
    THEN [s EXCEPT !.execTasks = @ \cup {ExecTask(s, c, request, "handler")}]
  ELSE Loopback_sendMessage(s, c,
         ToolExecutionResponse(request.id, Undefined,
                               "No tool executor configured"))

\* the resolver generateContent stores: reject on response?.error
Resolver(call, response) ==
  IF Truthy(response.error)
    THEN Settle(call, "rejected", response.error)
    ELSE Settle(call, "resolved", response.value)

\* ProtocolClient.handleMessage
ProtocolClient_handleMessage(s, c, message) ==
  CASE message.type = "tool_execution_request" ->
         ProtocolClient_handleToolRequest(s, c, message)
    [] message.type = "generate_content_response" ->
         IF message.requestId \in DOMAIN s.clientPendingRequests[c]
           THEN LET g == s.clientPendingRequests[c][message.requestId]
                    arg == IF Truthy(message.error)
                             THEN [error |-> message.error,
                                   value |-> Undefined]
                             ELSE [error |-> ErrorProperty(message.response),
                                   value |-> message.response]
                IN [s EXCEPT
                      !.genCalls[g] = Resolver(@, arg),
                      !.clientPendingRequests[c] =
                          Remove(@, message.requestId)]
           ELSE s
    [] OTHER -> s

\* what a handler given to client.onMessage throws, when it throws
HandlerError == "handler error"

\* the closure LoopbackProtocolClient.connect subscribes to the server:
\* this.handleMessage(message), then the client's own handlers, one of
\* which may throw
Loopback_onServerMessage(s, c, message) ==
  LET handled == ProtocolClient_handleMessage(
                   Log(s, ClientReceive(c, message)), c, message)
  IN IF handled.clientMessageHandlers[c] > 0 /\ handled.handlerThrows[c]
       THEN [handled EXCEPT !.thrown = HandlerError]
       ELSE handled

\* forEach over the handlers: a handler that throws ends it
RECURSIVE Dispatch(_, _, _)
Dispatch(s, handlers, message) ==
  IF handlers = <<>> \/ s.thrown # Undefined
    THEN s
    ELSE Dispatch(Loopback_onServerMessage(s, Head(handlers), message),
                  Tail(handlers), message)

\* CoreServer.sendMessage: messageHandlers.forEach(h => h(message, clientId));
\* what a handler throws rejects the promise sendMessage returns
CoreServer_sendMessage(s, clientId, message) ==
  Dispatch(Log(s, ServerSend(clientId, message)), s.messageHandlers, message)

\* an executeTool that sends the request before it stores the handlers
ExecuteTool_SendsFirst(s, clientId, toolName, id) ==
  LET k == Len(s.toolCalls) + 1
      call == [id |-> id, clientId |-> clientId, tool |-> toolName,
               promise |-> "pending", value |-> Undefined,
               timer |-> "armed"]
      sent == CoreServer_sendMessage(s, clientId,
                                     ToolExecutionRequest(id, toolName))
  IN [sent EXCEPT !.toolCalls = Append(@, call),
                  !.pendingRequests = Put(@, id, k)]

\* ToolProxy.executeTool: arm the timer, store the handlers, send
ToolProxy_executeTool(s, clientId, toolName, id) ==
  LET k == Len(s.toolCalls) + 1
      call == [id |-> id, clientId |-> clientId, tool |-> toolName,
               promise |-> "pending", value |-> Undefined,
               timer |-> "armed"]
      registered == [s EXCEPT !.toolCalls = Append(@, call),
                              !.pendingRequests = Put(@, id, k)]
      sent == CoreServer_sendMessage(registered, clientId,
                                     ToolExecutionRequest(id, toolName))
  IN \* the promise sendMessage returns is dropped, a rejection with it
     [sent EXCEPT !.thrown = Undefined]

\* the timeout callback without pendingRequests.delete
OnTimeout_KeepsEntry(s, k) ==
  LET call == s.toolCalls[k]
  IN [s EXCEPT
        !.toolCalls[k] =
           [Settle(call, "rejected", "Tool execution timeout: " \o call.tool)
              EXCEPT !.timer = "fired"]]

\* a timeout callback that deletes the entry and forgets to reject
OnTimeout_OnlyDeletes(s, k) ==
  [s EXCEPT !.pendingRequests = Remove(@, s.toolCalls[k].id),
            !.toolCalls[k].timer = "fired"]

\* a timeout callback that drops every pending entry
OnTimeout_ClearsAll(s, k) ==
  LET call == s.toolCalls[k]
  IN [s EXCEPT
        !.pendingRequests = EmptyMap,
        !.toolCalls[k] =
           [Settle(call, "rejected", "Tool execution timeout: " \o call.tool)
              EXCEPT !.timer = "fired"]]

\* the setTimeout callback of executeTool
ToolProxy_onTimeout(s, k) ==
  LET call == s.toolCalls[k]
  IN [s EXCEPT
        !.pendingRequests = Remove(@, call.id),
        !.toolCalls[k] =
           [Settle(call, "rejected", "Tool execution timeout: " \o call.tool)
              EXCEPT !.timer = "fired"]]

\* ProtocolClient.generateContent: store the resolver, send, arm the timer
ProtocolClient_generateContent(s, c, contents, id) ==
  LET g == Len(s.genCalls) + 1
      call == [client |-> c, id |-> id, contents |-> contents,
               promise |-> "pending", value |-> Undefined,
               timer |-> "unset"]
      registered == [s EXCEPT !.genCalls = Append(@, call),
                              !.clientPendingRequests[c] = Put(@, id, g)]
      sent == Loopback_sendMessage(registered, c,
                                   GenerateContentRequest(id, contents))
      \* this.sendMessage(message).catch(reject)
      caught == IF sent.thrown # Undefined
                  THEN [sent EXCEPT
                          !.genCalls[g] = Settle(@, "rejected", sent.thrown),
                          !.thrown = Undefined]
                  ELSE sent
  IN [caught EXCEPT !.genCalls[g].timer = "armed"]

\* the timeout callback rejecting without pendingRequests.delete
OnGenTimeout_KeepsEntry(s, g) ==
  LET call == s.genCalls[g]
      fired == [s EXCEPT !.genCalls[g].timer = "fired"]
  IN IF call.id \in DOMAIN s.clientPendingRequests[call.client]
       THEN [fired EXCEPT
               !.genCalls[g] = Settle(@, "rejected", "Request timeout")]
       ELSE fired

\* the setTimeout callback of generateContent
ProtocolClient_onTimeout(s, g) ==
  LET call == s.genCalls[g]
      fired == [s EXCEPT !.genCalls[g].timer = "fired"]
  IN IF call.id \in DOMAIN s.clientPendingRequests[call.client]
       THEN [fired EXCEPT
               !.clientPendingRequests[call.client] = Remove(@, call.id),
               !.genCalls[g] = Settle(@, "rejected", "Request timeout")]
       ELSE fired

\* announceTools announcing no tools instead of throwing
AnnounceTools_SendsUnconfigured(s, c) ==
  IF ~s.toolExecutor[c]
    THEN Loopback_sendMessage(s, c, ToolDiscoveryMessage(<<>>))
    ELSE Loopback_sendMessage(s, c, ToolDiscoveryMessage(ExecutorTools))

\* ProtocolClient.announceTools: throw without an executor, else send
\* one tool_discovery carrying the executor's definitions
ProtocolClient_announceTools(s, c) ==
  IF ~s.toolExecutor[c]
    THEN [s EXCEPT !.thrown =
            "Tool executor not set up - call setupToolExecution first"]
    ELSE Loopback_sendMessage(s, c, ToolDiscoveryMessage(ExecutorTools))

\* LoopbackProtocolClient.connect: server.onMessage(a new closure)
Loopback_connect(s, c) == [s EXCEPT !.messageHandlers = Append(@, c)]

\* a disconnect that refuses to run on a client with nothing to clear
Disconnect_ThrowsWhenIdle(s, c) ==
  IF s.clientMessageHandlers[c] = 0
    THEN [s EXCEPT !.thrown = "Not connected"]
    ELSE [s EXCEPT !.clientMessageHandlers[c] = 0]

\* LoopbackProtocolClient.disconnect: messageHandlers.clear()
Loopback_disconnect(s, c) ==
  [s EXCEPT !.clientMessageHandlers[c] = 0, !.handlerThrows[c] = FALSE]

\* ---------------------------------------------------------------- Init
Init ==
  /\ pendingRequests = EmptyMap
  /\ clientTools = EmptyMap
  /\ toolCalls = <<>>
  /\ warned = {}
  /\ messageHandlers = <<>>
  /\ geminiClient = FALSE
  /\ engineTasks = {}
  /\ clientMessageHandlers = [c \in Clients |-> 0]
  /\ clientPendingRequests = [c \in Clients |-> EmptyMap]
  /\ genCalls = <<>>
  /\ toolExecutor = [c \in Clients |-> FALSE]
  /\ toolRequestHandler = [c \in Clients |-> FALSE]
  /\ execTasks = {}
  /\ thrown = Undefined
  /\ lastCall = Undefined
  /\ trace = <<>>
  /\ connected = [c \in Clients |-> FALSE]
  /\ streams = <<>>
  /\ probe = NoProbe
  /\ arrivals = <<>>
  /\ handlerThrows = [c \in Clients |-> FALSE]

\* -------------------------------------------------------------- actions
\* toolProxy.executeTool(clientId, toolName, parameters)
executeTool(clientId, toolName) ==
  /\ Len(toolCalls) < MaxToolCalls
  /\ Commit(ToolProxy_executeTool(Call("executeTool"), clientId, toolName,
                                  generateId(ToolIds)))

\* the timer of the k-th executeTool call fires
toolTimeout(k) ==
  /\ toolCalls[k].timer = "armed"
  /\ Commit(ToolProxy_onTimeout(Call("toolTimeout"), k))

\* messages a transport or a test hands to server.handleMessage
ToolResponses ==
  {ToolExecutionResponse(id, r, e) :
     id \in ToolRequestIds, r \in Results \cup {Undefined},
     e \in ErrorStrings \cup {Undefined}}
Discoveries == {ToolDiscoveryMessage(tools) : tools \in ToolLists}
\* the responses a client sends: a result, or an error, for some id
WellFormedToolResponses == {m \in ToolResponses : CarriesOne(m)}

\* server.handleMessage(message, clientId), called from outside: the call
\* itself is in lastCall, not among the calls made within it
handleMessage(message, clientId) ==
  /\ clientId \in ClientIds
  /\ Commit([CoreServer_handleMessage(Call("handleMessage"), message,
                                      clientId)
               EXCEPT !.arrivals = Tail(@)])

\* messages handed to server.sendMessage directly; no client awaits them
ServerMessages ==
  {UnknownMessage,
   GenerateContentResponse(MaxGenCalls + 1, "{text}", Undefined)}

\* server.sendMessage(clientId, message)
sendMessage(clientId, message) ==
  /\ clientId \in ClientIds
  /\ Commit(CoreServer_sendMessage(Call("sendMessage"), clientId, message))

\* server.start() initializes the generation engine
start ==
  /\ ~geminiClient
  /\ Commit([Call("start") EXCEPT !.geminiClient = TRUE])

\* server.stop(): messageHandlers.clear()
stop ==
  /\ messageHandlers # <<>>
  /\ Commit([Call("stop") EXCEPT !.messageHandlers = <<>>])

\* how geminiClient.generateContent settles: it returns a payload, throws
\* an Error with some message, or throws a value that is no Error
EngineOutcomes ==
  {[kind |-> "returned", value |-> p] : p \in Payloads}
  \cup {[kind |-> "threw Error", value |-> e] : e \in ErrorStrings}
  \cup {[kind |-> "threw other", value |-> "x"]}

\* a catch block that sends a payload along with the error
EngineSettled_BothFields(task, outcome) ==
  IF outcome.kind = "returned"
    THEN GenerateContentResponse(task.requestId, outcome.value, Undefined)
    ELSE GenerateContentResponse(task.requestId, "{text}",
           IF outcome.kind = "threw Error"
             THEN outcome.value ELSE "Unknown error")

\* a catch block that forgets the error field
EngineSettled_NoErrorField(task, outcome) ==
  IF outcome.kind = "returned"
    THEN GenerateContentResponse(task.requestId, outcome.value, Undefined)
    ELSE GenerateContentResponse(task.requestId, Null, Undefined)

\* the message handleGenerateContent builds after the await: the payload,
\* or in the catch null with error.message or 'Unknown error'
CoreServer_engineSettled(task, outcome) ==
  IF outcome.kind = "returned"
    THEN GenerateContentResponse(task.requestId, outcome.value, Undefined)
    ELSE GenerateContentResponse(task.requestId, Null,
           IF outcome.kind = "threw Error"
             THEN outcome.value ELSE "Unknown error")

\* what handleGenerateContent sends once the engine has answered
EngineResponses(task) ==
  {CoreServer_engineSettled(task, outcome) : outcome \in EngineOutcomes}

\* handleGenerateContent rejected: so does the handleMessage call that
\* awaited it and the client's sendMessage that awaited that, and the
\* generateContent call that sent the request catches it with reject
SendRejected(s, requestId) ==
  [s EXCEPT
     !.genCalls = [g \in DOMAIN @ |->
                     IF @[g].id = requestId
                       THEN Settle(@[g], "rejected", s.thrown)
                       ELSE @[g]],
     !.thrown = Undefined]

\* the rest of handleGenerateContent, after the await on the engine: the
\* response is sent; a throw while the success response is delivered is
\* inside the try, so the catch sends an error response as well; a throw
\* while an error response is delivered leaves handleGenerateContent
CoreServer_engineAnswered(s, task, response) ==
  LET first == CoreServer_sendMessage([s EXCEPT !.engineTasks = @ \ {task}],
                                      task.clientId, response)
      second == CoreServer_sendMessage(
                  [first EXCEPT !.thrown = Undefined], task.clientId,
                  GenerateContentResponse(task.requestId, Null, first.thrown))
  IN IF first.thrown = Undefined
       THEN first
     ELSE IF response.error # Undefined
       THEN SendRejected(first, task.requestId)
     ELSE IF second.thrown = Undefined
       THEN second
     ELSE SendRejected(second, task.requestId)

engineDone(task, response) ==
  /\ task \in engineTasks
  /\ response \in EngineResponses(task)
  /\ Commit(CoreServer_engineAnswered(Call("engineDone"), task, response))

\* client.connect(): server.onMessage(a new closure)
connect(c) ==
  /\ Len(messageHandlers) < MaxConnects
  /\ Commit([Loopback_connect(Call("connect"), c)
               EXCEPT !.connected[c] = TRUE])

\* client.disconnect(): messageHandlers.clear()
disconnect(c) ==
  /\ c \in Clients
  /\ Commit([Loopback_disconnect(Call("disconnect"), c)
               EXCEPT !.connected[c] = FALSE])

\* client.onMessage(handler): messageHandlers.add(handler)
onMessage(c) ==
  /\ clientMessageHandlers[c] < MaxHandlers
  /\ Commit([Call("onMessage") EXCEPT !.clientMessageHandlers[c] = @ + 1])

\* client.onMessage(handler) with a handler that throws when called
onMessageThrowing(c) ==
  /\ clientMessageHandlers[c] < MaxHandlers
  /\ Commit([Call("onMessage") EXCEPT !.clientMessageHandlers[c] = @ + 1,
                                      !.handlerThrows[c] = TRUE])

\* client.setupToolExecution(executor)
setupToolExecution(c) ==
  /\ ~toolExecutor[c]
  /\ Commit([Call("setupToolExecution") EXCEPT !.toolExecutor[c] = TRUE])

\* client.onToolRequest(handler)
onToolRequest(c) ==
  /\ ~toolRequestHandler[c]
  /\ Commit([Call("onToolRequest") EXCEPT !.toolRequestHandler[c] = TRUE])

\* client.announceTools()
announceTools(c) ==
  /\ c \in Clients
  /\ Commit(ProtocolClient_announceTools(Call("announceTools"), c))

\* client.generateContent({contents})
generateContent(c, contents) ==
  /\ Len(genCalls) < MaxGenCalls
  /\ Commit(ProtocolClient_generateContent(Call("generateContent"), c, contents,
                                           generateId(GenIds)))

\* the timer of the g-th generateContent call fires
genTimeout(g) ==
  /\ genCalls[g].timer = "armed"
  /\ Commit(ProtocolClient_onTimeout(Call("genTimeout"), g))

\* what handleToolRequest sends once the executor or handler has
\* answered: the response it returned (LocalToolExecutor.execute answers
\* with requestId: request.id and a result, or with the error of a tool
\* that failed; a legacy handler is taken to do the same), or from the
\* catch the message of what the handler threw
ExecResponses(task) ==
  {ToolExecutionResponse(task.requestId, r, Undefined) : r \in Results}
  \cup {ToolExecutionResponse(task.requestId, Undefined, e) :
          e \in ErrorStrings}

\* a continuation that answers from the try and again from the catch
ToolRequestSettled_SendsTwice(s, task, response) ==
  Loopback_sendMessage(
    Loopback_sendMessage([s EXCEPT !.execTasks = @ \ {task}],
                         task.client, response),
    task.client,
    ToolExecutionResponse(task.requestId, Undefined, "e1"))

\* the rest of handleToolRequest, after the await on executor or handler:
\* await this.sendMessage(response), which does not throw
ProtocolClient_toolRequestSettled(s, task, response) ==
  Loopback_sendMessage([s EXCEPT !.execTasks = @ \ {task}],
                       task.client, response)

execDone(task, response) ==
  /\ task \in execTasks
  /\ response \in ExecResponses(task)
  /\ Commit(ProtocolClient_toolRequestSettled(Call("execDone"), task,
                                              response))

\* executeTool and generateContent when generateId() may return any string
\* of its range, one that is in use included: the id is two runs of
\* Math.random() digits and nothing compares it with the ids in use
executeToolAnyId(clientId, toolName, id) ==
  /\ Len(toolCalls) < MaxToolCalls
  /\ id \in ToolRequestIds
  /\ Commit(ToolProxy_executeTool(Call("executeTool"), clientId, toolName,
                                  id))

generateContentAnyId(c, contents, id) ==
  /\ Len(genCalls) < MaxGenCalls
  /\ id \in GenRequestIds
  /\ Commit(ProtocolClient_generateContent(Call("generateContent"), c,
                                           contents, id))

\* client.generateContentStream(request): an async generator object is
\* returned; its body does not run before the first next()
NewGenerator(c, contents) ==
  [client |-> c, contents |-> contents, state |-> "suspendedStart",
   call |-> 0, chunks |-> <<>>, error |-> Undefined]

generateContentStream(c, contents) ==
  /\ Len(streams) < MaxStreams
  /\ Commit([Call("generateContentStream") EXCEPT
              !.streams = Append(@, NewGenerator(c, contents))])

\* a generator that also yields once more after its response
StreamNext_YieldsAgain(s, i, id) ==
  LET stream == s.streams[i]
  IN CASE stream.state = "suspendedStart" ->
            [ProtocolClient_generateContent(s, stream.client, stream.contents,
                                            id)
               EXCEPT !.streams[i].state = "awaiting",
                      !.streams[i].call = Len(s.genCalls) + 1]
       [] stream.state = "suspendedYield" ->
            [s EXCEPT !.streams[i].chunks = Append(@, Undefined),
                      !.streams[i].state = "completed"]
       [] OTHER -> s

\* generator.next(): from the start the body runs to its await, calling
\* this.generateContent(request); from the yield it runs to its end; a
\* generator that completed or failed stays so
ProtocolClient_streamNext(s, i, id) ==
  LET stream == s.streams[i]
  IN CASE stream.state = "suspendedStart" ->
            [ProtocolClient_generateContent(s, stream.client, stream.contents,
                                            id)
               EXCEPT !.streams[i].state = "awaiting",
                      !.streams[i].call = Len(s.genCalls) + 1]
       [] stream.state = "suspendedYield" ->
            [s EXCEPT !.streams[i].state = "completed"]
       [] OTHER -> s

\* the consumer asks for the next chunk once the previous one is settled
streamNext(i) ==
  /\ streams[i].state # "awaiting"
  /\ streams[i].state = "suspendedStart" => Len(genCalls) < MaxGenCalls
  /\ Commit(ProtocolClient_streamNext(Call("streamNext"), i,
                                      generateId(GenIds)))

\* a generator that yields the error of a rejected call as a chunk
StreamResumed_YieldsError(s, i) ==
  LET call == s.genCalls[s.streams[i].call]
  IN [s EXCEPT !.streams[i].chunks = Append(@, call.value),
               !.streams[i].state = "suspendedYield"]

\* the body resumes from `await this.generateContent(request)`: it yields
\* the response, or the rejection leaves the body and fails the generator
ProtocolClient_streamResumed(s, i) ==
  LET call == s.genCalls[s.streams[i].call]
  IN IF call.promise = "resolved"
       THEN [s EXCEPT !.streams[i].chunks = Append(@, call.value),
                      !.streams[i].state = "suspendedYield"]
       ELSE [s EXCEPT !.streams[i].error = call.value,
                      !.streams[i].state = "failed"]

streamResume(i) ==
  /\ streams[i].state = "awaiting"
  /\ genCalls[streams[i].call].promise # "pending"
  /\ Commit(ProtocolClient_streamResumed(Call("streamResume"), i))

\* validateProtocolMessage(message)
validate(message) ==
  /\ message \in ValidateInputs
  /\ Commit([State EXCEPT !.probe =
              Applied("validateProtocolMessage", <<message>>,
                      validateProtocolMessage(message), JSUndefined)])

\* createGenerateContentRequest(contents, config)
generateContentRequest(id, now, contents, config) ==
  /\ id \in GeneratedIds
  /\ Commit([State EXCEPT !.probe =
              Applied("createGenerateContentRequest", <<contents, config>>,
                      createGenerateContentRequest(id, now, contents, config),
                      JSUndefined)])

\* createToolExecutionRequest(tool, parameters)
toolExecutionRequest(id, now, tool, parameters) ==
  /\ id \in GeneratedIds
  /\ Commit([State EXCEPT !.probe =
              Applied("createToolExecutionRequest", <<tool, parameters>>,
                      createToolExecutionRequest(id, now, tool, parameters),
                      JSUndefined)])

\* createToolExecutionResponse(requestId, result, error)
toolExecutionResponse(id, now, requestId, result, error) ==
  /\ id \in GeneratedIds
  /\ Commit([State EXCEPT !.probe =
              Applied("createToolExecutionResponse",
                      <<requestId, result, error>>,
                      createToolExecutionResponse(id, now, requestId, result,
                                                  error),
                      JSUndefined)])

\* createToolExecutionResponse(request.id, result) by the receiver of the
\* request just built
respond(id, now, result) ==
  /\ probe.fn = "createToolExecutionRequest"
  /\ Commit([State EXCEPT !.probe =
              Applied("createToolExecutionResponse",
                      <<Get(probe.out, "id"), result, JSUndefined>>,
                      createToolExecutionResponse(id, now,
                        Get(probe.out, "id"), result, JSUndefined),
                      probe.out)])

\* createStreamingResponse(requestId, chunk, isComplete)
streamingResponse(id, now, requestId, chunk, isComplete) ==
  /\ id \in GeneratedIds
  /\ Commit([State EXCEPT !.probe =
              Applied("createStreamingResponse",
                      <<requestId, chunk, isComplete>>,
                      createStreamingResponse(id, now, requestId, chunk,
                                              isComplete),
                      JSUndefined)])

\* ------------------------------------------------------- specifications
\* the tool proxy alone, its responses handed to server.handleMessage the
\* way LoopbackProtocolClient.sendMessage hands them: as from "loopback"
NextProxy ==
  \/ \E clientId \in ClientIds, toolName \in ToolNames :
       executeTool(clientId, toolName)
  \/ \E k \in DOMAIN toolCalls : toolTimeout(k)
  \/ \E message \in ToolResponses \cup {UnknownMessage} :
       handleMessage(message, "loopback")

SpecProxy == Init /\ [][NextProxy]_vars

\* generation requests of one loopback client against the server's engine
NextClient ==
  \/ start
  \/ stop
  \/ \E task \in engineTasks,
        response \in UNION {EngineResponses(t) : t \in engineTasks} :
       engineDone(task, response)
  \/ connect("c1")
  \/ disconnect("c1")
  \/ onMessage("c1")
  \/ \E contents \in Contents : generateContent("c1", contents)
  \/ \E g \in DOMAIN genCalls : genTimeout(g)

SpecClient == Init /\ [][NextClient]_vars

\* tool discovery: announcements of one loopback client, raw discoveries
NextDiscovery ==
  \/ \E message \in Discoveries, clientId \in ClientIds :
       handleMessage(message, clientId)
  \/ connect("c1")
  \/ disconnect("c1")
  \/ onMessage("c1")
  \/ setupToolExecution("c1")
  \/ announceTools("c1")

SpecDiscovery == Init /\ [][NextDiscovery]_vars

\* tool execution end to end: the proxy, one loopback client, its executor
\* or legacy handler; a call is made while the executions it starts keep
\* those in flight within MaxInFlight
NextTools ==
  \/ connect("c1")
  \/ setupToolExecution("c1")
  \/ onToolRequest("c1")
  \/ \E toolName \in ToolNames :
       /\ Cardinality(execTasks) + Len(messageHandlers) <= MaxInFlight
       /\ executeTool("loopback", toolName)
  \/ \E task \in execTasks,
        response \in UNION {ExecResponses(t) : t \in execTasks} :
       execDone(task, response)

SpecTools == Init /\ [][NextTools]_vars

\* routing: two loopback clients on one server, messages the server
\* addresses to a client id
NextRouting ==
  \/ \E c \in Clients : connect(c)
  \/ \E c \in Clients : disconnect(c)
  \/ \E clientId \in ClientIds, message \in ServerMessages :
       sendMessage(clientId, message)
  \/ \E clientId \in ClientIds, toolName \in ToolNames :
       executeTool(clientId, toolName)
  \/ \E k \in DOMAIN toolCalls : toolTimeout(k)

SpecRouting == Init /\ [][NextRouting]_vars

\* correlation: tool calls and generation calls pending together, their
\* responses in any order, unknown messages and unknown ids in between
NextCorrelation ==
  \/ start
  \/ ~connected["c1"] /\ connect("c1")
  \/ \E toolName \in ToolNames :
       /\ Len(toolCalls) + Len(genCalls) < MaxCalls
       /\ executeTool("loopback", toolName)
  \/ \E message \in WellFormedToolResponses \cup {UnknownMessage} :
       handleMessage(message, "loopback")
  \/ \E contents \in Contents :
       /\ Len(toolCalls) + Len(genCalls) < MaxCalls
       /\ generateContent("c1", contents)
  \/ \E task \in engineTasks,
        response \in UNION {EngineResponses(t) : t \in engineTasks} :
       engineDone(task, response)

SpecCorrelation == Init /\ [][NextCorrelation]_vars

\* one response with a result and one with an error for each id; one
\* engine answer and one engine failure for each request
PlainToolResponses ==
  {m \in WellFormedToolResponses : m.result = "r1" \/ m.error = "e1"}
PlainEngineResponses(task) ==
  {m \in EngineResponses(task) : m.response = "{text}" \/ m.error = "e1"}

\* timers: tool calls and generation calls pending together, each with
\* its timer, responses and duplicates of responses in any order
NextTimeouts ==
  \/ start
  \/ ~connected["c1"] /\ connect("c1")
  \/ \E toolName \in ToolNames :
       /\ Len(toolCalls) + Len(genCalls) < MaxCalls
       /\ executeTool("loopback", toolName)
  \/ \E k \in DOMAIN toolCalls : toolTimeout(k)
  \/ \E message \in PlainToolResponses :
       handleMessage(message, "loopback")
  \/ \E contents \in Contents :
       /\ Len(toolCalls) + Len(genCalls) < MaxCalls
       /\ generateContent("c1", contents)
  \/ \E g \in DOMAIN genCalls : genTimeout(g)
  \/ \E task \in engineTasks,
        response \in UNION {PlainEngineResponses(t) : t \in engineTasks} :
       engineDone(task, response)

SpecTimeouts == Init /\ [][NextTimeouts]_vars

\* the client has set up an executor, connected and announced its tools
Announced(c) ==
  /\ toolExecutor[c]
  /\ \E i \in DOMAIN messageHandlers : messageHandlers[i] = c
  /\ "loopback" \in DOMAIN clientTools
  /\ clientTools["loopback"] = ExecutorTools

\* the loopback binding end to end: one client that sets up its executor,
\* connects once and announces; then tool calls from the server to it, and
\* once connected generation calls from it to the server's engine
NextLoopback ==
  \/ start
  \/ setupToolExecution("c1")
  \/ ~connected["c1"] /\ connect("c1")
  \/ connected["c1"] /\ announceTools("c1")
  \/ \E toolName \in ToolNames :
       /\ Len(toolCalls) + Len(genCalls) < MaxCalls
       /\ Announced("c1")
       /\ executeTool("loopback", toolName)
  \/ \E task \in execTasks,
        response \in UNION {ExecResponses(t) : t \in execTasks} :
       execDone(task, response)
  \/ \E contents \in Contents :
       /\ Len(toolCalls) + Len(genCalls) < MaxCalls
       /\ connected["c1"]
       /\ generateContent("c1", contents)
  \/ \E task \in engineTasks,
        response \in UNION {EngineResponses(t) : t \in engineTasks} :
       engineDone(task, response)

SpecLoopback == Init /\ [][NextLoopback]_vars

\* streams of one loopback client against the server's engine
NextStream ==
  \/ start
  \/ ~connected["c1"] /\ connect("c1")
  \/ \E contents \in Contents : generateContentStream("c1", contents)
  \/ \E i \in DOMAIN streams : streamNext(i)
  \/ \E i \in DOMAIN streams : streamResume(i)
  \/ \E task \in engineTasks,
        response \in UNION {EngineResponses(t) : t \in engineTasks} :
       engineDone(task, response)
  \/ \E g \in DOMAIN genCalls : genTimeout(g)

SpecStream == Init /\ [][NextStream]_vars

\* tool calls against the tool sets clients have announced so far
NextCatalog ==
  \/ ~connected["c1"] /\ connect("c1")
  \/ \E message \in Discoveries, clientId \in ClientIds :
       handleMessage(message, clientId)
  \/ \E clientId \in ClientIds, toolName \in ToolNames :
       executeTool(clientId, toolName)
  \/ \E k \in DOMAIN toolCalls : toolTimeout(k)

SpecCatalog == Init /\ [][NextCatalog]_vars

\* the functions of messages.ts applied to arguments of every kind
NextMessages ==
  \/ \E message \in ValidateInputs : validate(message)
  \/ \E id \in GeneratedIds, now \in Timestamps, contents \in Arguments,
        config \in Arguments :
       generateContentRequest(id, now, contents, config)
  \/ \E id \in GeneratedIds, now \in Timestamps, tool \in {Str(""), Str("a")},
        parameters \in Arguments :
       toolExecutionRequest(id, now, tool, parameters)
  \/ \E id \in GeneratedIds, now \in Timestamps, requestId \in RequestIds,
        result \in Arguments, error \in {JSUndefined, Str(""), Str("a")} :
       toolExecutionResponse(id, now, requestId, result, error)
  \/ \E id \in GeneratedIds, now \in Timestamps, result \in Arguments :
       respond(id, now, result)
  \/ \E id \in GeneratedIds, now \in Timestamps, requestId \in RequestIds,
        chunk \in Arguments, isComplete \in {Bool(TRUE), Bool(FALSE)} :
       streamingResponse(id, now, requestId, chunk, isComplete)

SpecMessages == Init /\ [][NextMessages]_vars

\* calls whose ids are whatever generateId() returns, against their
\* responses and timers
NextIds ==
  \/ start
  \/ ~connected["c1"] /\ connect("c1")
  \/ \E id \in ToolRequestIds :
       /\ Len(toolCalls) + Len(genCalls) < MaxCalls
       /\ executeToolAnyId("loopback", "A", id)
  \/ \E k \in DOMAIN toolCalls : toolTimeout(k)
  \/ \E id \in DOMAIN pendingRequests :
       handleMessage(ToolExecutionResponse(id, "r1", Undefined), "loopback")
  \/ \E contents \in Contents, id \in GenRequestIds :
       /\ Len(toolCalls) + Len(genCalls) < MaxCalls
       /\ generateContentAnyId("c1", contents, id)
  \/ \E g \in DOMAIN genCalls : genTimeout(g)
  \/ \E task \in engineTasks :
       engineDone(task,
                  GenerateContentResponse(task.requestId, "{text}", Undefined))

SpecIds == Init /\ [][NextIds]_vars

\* calls answered while they are being sent: tool calls to a client that
\* may have no executor, generation calls to a server that may have no
\* engine
NextRegister ==
  \/ start
  \/ connect("c1")
  \/ setupToolExecution("c1")
  \/ /\ Len(toolCalls) + Len(genCalls) < MaxCalls
     /\ executeTool("loopback", "A")
  \/ \E task \in execTasks :
       execDone(task, ToolExecutionResponse(task.requestId, "r1", Undefined))
  \/ \E contents \in Contents :
       /\ Len(toolCalls) + Len(genCalls) < MaxCalls
       /\ generateContent("c1", contents)
  \/ \E task \in engineTasks :
       engineDone(task,
                  GenerateContentResponse(task.requestId, "{text}", Undefined))

SpecRegister == Init /\ [][NextRegister]_vars

\* tool calls to either client id, responses arriving from either
NextOrigin ==
  \/ \E clientId \in ClientIds, toolName \in ToolNames :
       executeTool(clientId, toolName)
  \/ \E k \in DOMAIN toolCalls : toolTimeout(k)
  \/ \E message \in PlainToolResponses, clientId \in ClientIds :
       handleMessage(message, clientId)

SpecOrigin == Init /\ [][NextOrigin]_vars

\* generation calls of two clients, the first of which has given
\* onMessage a handler that throws
NextFaulty ==
  \/ start
  \/ \E c \in Clients : ~connected[c] /\ connect(c)
  \/ onMessageThrowing("c1")
  \/ \E c \in Clients, contents \in Contents :
       /\ connected[c]
       /\ generateContent(c, contents)
  \/ \E g \in DOMAIN genCalls : genTimeout(g)
  \/ \E task \in engineTasks :
       \E response \in PlainEngineResponses(task) : engineDone(task, response)

SpecFaulty == Init /\ [][NextFaulty]_vars

\* the event loop runs the callback of a timer that is due
TimersFire ==
  /\ \A k \in 1..MaxToolCalls :
       WF_vars(k \in DOMAIN toolCalls /\ toolTimeout(k))
  /\ \A g \in 1..MaxGenCalls :
       WF_vars(g \in DOMAIN genCalls /\ genTimeout(g))

\* the calls, the answers to the requests still outstanding, and the timers
NextLive ==
  \/ start
  \/ ~connected["c1"] /\ connect("c1")
  \/ /\ Len(toolCalls) + Len(genCalls) < MaxCalls
     /\ executeTool("loopback", "A")
  \/ \E k \in DOMAIN toolCalls : toolTimeout(k)
  \/ \E message \in PlainToolResponses :
       /\ message.requestId \in DOMAIN pendingRequests
       /\ handleMessage(message, "loopback")
  \/ \E contents \in Contents :
       /\ Len(toolCalls) + Len(genCalls) < MaxCalls
       /\ generateContent("c1", contents)
  \/ \E g \in DOMAIN genCalls : genTimeout(g)
  \/ \E task \in engineTasks,
        response \in UNION {PlainEngineResponses(t) : t \in engineTasks} :
       engineDone(task, response)

SpecTimeoutsFair == Init /\ [][NextLive]_vars /\ TimersFire

\* ---------------------------------------------------- ToolProxy claims
\* the program state of the proxy: its maps, the promises and their timers
proxyState == <<pendingRequests, clientTools, toolCalls>>

\* an executeTool call whose promise is unsettled and whose entry is stored
StillPending(k) ==
  /\ toolCalls[k].promise = "pending"
  /\ toolCalls[k].id \in DOMAIN pendingRequests
  /\ pendingRequests[toolCalls[k].id] = k

\* C1: a response carrying the id of a pending executeTool call, a result
\* and no error resolves that call with exactly that result
C1_ResultResolves ==
  [][\A k \in DOMAIN toolCalls :
       StillPending(k)
       => \A r \in Results :
            \/ /\ toolCalls'[k].promise = "resolved"
               /\ toolCalls'[k].value = r
            \/ ~handleMessage(
                  ToolExecutionResponse(toolCalls[k].id, r, Undefined),
                  "loopback")]_vars

C1_Witness ==
  \E k \in DOMAIN toolCalls :
    /\ lastCall = "handleMessage"
    /\ toolCalls[k].promise = "resolved"
    /\ toolCalls[k].value \in Results
    /\ toolCalls[k].id \notin DOMAIN pendingRequests

\* C2: a response carrying the id of a pending executeTool call and an
\* error (any string) rejects that call with that string as the message
C2_ErrorRejects ==
  [][\A k \in DOMAIN toolCalls :
       StillPending(k)
       => \A e \in ErrorStrings, r \in Results \cup {Undefined} :
            \/ /\ toolCalls'[k].promise = "rejected"
               /\ toolCalls'[k].value = e
            \/ ~handleMessage(ToolExecutionResponse(toolCalls[k].id, r, e),
                              "loopback")]_vars

\* C3: a call whose timer fires before any matching response rejects with
\* "Tool execution timeout: <tool>" and loses its entry; a response for
\* its id handled afterwards throws nothing and leaves the maps, the
\* promises and the timers as they were
C3_TimeoutThenLateResponse ==
  [][/\ \A k \in DOMAIN toolCalls :
          StillPending(k)
          => \/ /\ toolCalls'[k].promise = "rejected"
                /\ toolCalls'[k].value =
                     "Tool execution timeout: " \o toolCalls[k].tool
                /\ toolCalls[k].id \notin DOMAIN pendingRequests'
             \/ ~toolTimeout(k)
     /\ \/ UNCHANGED proxyState /\ thrown' = Undefined
        \/ \A k \in DOMAIN toolCalls :
             toolCalls[k].timer = "fired"
             => \A message \in ToolResponses :
                  \/ message.requestId # toolCalls[k].id
                  \/ ~handleMessage(message, "loopback")]_vars

C3_Witness ==
  \E k \in DOMAIN toolCalls :
    /\ lastCall = "handleMessage"
    /\ toolCalls[k].timer = "fired"
    /\ toolCalls[k].promise = "rejected"
    /\ toolCalls[k].value = "Tool execution timeout: " \o toolCalls[k].tool
    /\ toolCalls[k].id \notin DOMAIN pendingRequests
    /\ warned = {toolCalls[k].id}

\* C4: a response whose requestId was never registered throws nothing and
\* leaves every pending entry, promise, timer and tool set unchanged
C4_UnknownIdIgnored ==
  [][\/ UNCHANGED proxyState /\ thrown' = Undefined
     \/ \A message \in ToolResponses :
          \/ message.requestId \in ToolIds
          \/ ~handleMessage(message, "loopback")]_vars

C4_Witness ==
  /\ lastCall = "handleMessage"
  /\ warned # {}
  /\ warned \cap ToolIds = {}
  /\ \E k \in DOMAIN toolCalls : StillPending(k)

\* ----------------------------------------------- ProtocolClient claims
\* a generateContent call whose promise is unsettled and whose resolver is
\* stored in its client's pending map
GenPending(g) ==
  /\ genCalls[g].promise = "pending"
  /\ genCalls[g].id \in DOMAIN clientPendingRequests[genCalls[g].client]
  /\ clientPendingRequests[genCalls[g].client][genCalls[g].id] = g

\* the client's connect() closure is among the server's handlers
Subscribed(c) == \E i \in DOMAIN messageHandlers : messageHandlers[i] = c

\* C5: the generate_content_response carrying a pending call's id settles
\* it: resolved with response.response when error is absent, rejected
\* with response.error when it is present; a response matching no pending
\* entry changes no call and no pending entry
C5_SettlesFromResponse ==
  [][\A g \in DOMAIN genCalls, task \in engineTasks :
       \A response \in EngineResponses(task) :
         (engineDone(task, response) /\ Subscribed(genCalls[g].client))
         => IF GenPending(g) /\ task.requestId = genCalls[g].id
              THEN IF response.error = Undefined
                     THEN /\ genCalls'[g].promise = "resolved"
                          /\ genCalls'[g].value = response.response
                     ELSE /\ genCalls'[g].promise = "rejected"
                          /\ genCalls'[g].value = response.error
              ELSE /\ genCalls'[g] = genCalls[g]
                   /\ (task.requestId \notin
                         DOMAIN clientPendingRequests[genCalls[g].client]
                       => UNCHANGED clientPendingRequests)]_vars

\* C6: a call whose timer fires before any matching response loses its
\* entry and rejects with the timeout error; a response for its id
\* handled afterwards settles nothing and touches no pending entry
C6_GenTimeoutThenLateResponse ==
  [][/\ \A g \in DOMAIN genCalls :
          (GenPending(g) /\ genTimeout(g))
          => /\ genCalls'[g].promise = "rejected"
             /\ genCalls'[g].value = "Request timeout"
             /\ genCalls[g].id \notin
                  DOMAIN clientPendingRequests'[genCalls[g].client]
     /\ \A g \in DOMAIN genCalls, task \in engineTasks :
          \A response \in EngineResponses(task) :
            (/\ genCalls[g].timer = "fired"
             /\ task.requestId = genCalls[g].id
             /\ engineDone(task, response))
            => /\ genCalls' = genCalls
               /\ clientPendingRequests' = clientPendingRequests]_vars

C6_Witness ==
  /\ lastCall = "engineDone"
  /\ Len(genCalls) = 1
  /\ Subscribed(genCalls[1].client)
  /\ genCalls[1].timer = "fired"
  /\ genCalls[1].promise = "rejected"
  /\ genCalls[1].value = "Request timeout"
  /\ clientPendingRequests[genCalls[1].client] = EmptyMap

\* C7: disconnect() rejects every unsettled request of the client with
\* ConnectionClosed and leaves the client's pending map empty
C7_DisconnectRejectsPending ==
  [][\A c \in Clients :
       disconnect(c)
       => /\ clientPendingRequests'[c] = EmptyMap
          /\ \A g \in DOMAIN genCalls :
               (genCalls[g].client = c /\ genCalls[g].promise = "pending")
               => /\ genCalls'[g].promise = "rejected"
                  /\ genCalls'[g].value = "ConnectionClosed"]_vars

\* C8: from every reachable state a second disconnect() leaves the state
\* the first one produced, neither call throws, and the second settles
\* no request
C8_DisconnectIdempotent ==
  \A c \in Clients :
    LET once == Loopback_disconnect(Call("disconnect"), c)
        twice == Loopback_disconnect([once EXCEPT !.thrown = Undefined], c)
    IN /\ once.thrown = Undefined
       /\ twice.thrown = Undefined
       /\ twice = once
       /\ twice.genCalls = once.genCalls

C8_Witness ==
  /\ lastCall = "disconnect"
  /\ clientMessageHandlers["c1"] = 0
  /\ \E g \in DOMAIN genCalls : GenPending(g) /\ genCalls[g].client = "c1"

\* -------------------------------------------------- discovery claims
\* the names of a tool list
ToolNamesOf(tools) == {tools[i].name : i \in DOMAIN tools}

\* C9: each discovery replaces the sender's tool set wholesale, and
\* nothing else changes a tool set, so getClientTools(clientId) is the
\* tool list of the latest discovery from clientId and hasClientTool
\* holds of exactly its names
C9_DiscoveryReplaces ==
  [][\/ \E message \in Discoveries, clientId \in ClientIds :
          /\ handleMessage(message, clientId)
          /\ getClientTools(clientId)' = message.tools
          /\ \A n \in ToolNames :
               hasClientTool(clientId, n)' <=> n \in ToolNamesOf(message.tools)
          /\ \A other \in ClientIds \ {clientId} :
               getClientTools(other)' = getClientTools(other)
     \/ \E c \in Clients :
          /\ announceTools(c)
          /\ thrown' = Undefined
          /\ getClientTools("loopback")' = ExecutorTools
          /\ \A other \in ClientIds \ {"loopback"} :
               getClientTools(other)' = getClientTools(other)
     \/ UNCHANGED clientTools]_vars

C9_Witness ==
  /\ lastCall = "handleMessage"
  /\ getClientTools("loopback") = <<ToolDefinition("A")>>
  /\ ~hasClientTool("loopback", "B")
  /\ getClientTools("remote") =
       <<ToolDefinition("A"), ToolDefinition("B")>>

\* C10: when a client disconnects its tool set is removed: afterwards
\* getClientTools is empty and hasClientTool is false for every name
C10_DisconnectPurgesTools ==
  [][\A c \in Clients :
       disconnect(c)
       => /\ getClientTools("loopback")' = <<>>
          /\ \A n \in ToolNames : ~hasClientTool("loopback", n)']_vars

\* ------------------------------------------- client tool-request claims
\* the places of a trace where client c received the tool request id
ToolRequestsReceived(tr, c, id) ==
  {i \in DOMAIN tr :
     /\ tr[i].op = "client.handleMessage"
     /\ tr[i].client = c
     /\ tr[i].message.type = "tool_execution_request"
     /\ tr[i].message.id = id}

\* the places of a trace where client c sent a response to request id
ToolResponsesSent(tr, c, id) ==
  {i \in DOMAIN tr :
     /\ tr[i].op = "client.sendMessage"
     /\ tr[i].client = c
     /\ tr[i].message.type = "tool_execution_response"
     /\ tr[i].message.requestId = id}

\* the executions of request id that client c still awaits
TasksOf(tasks, c, id) == {x \in tasks : x.client = c /\ x.requestId = id}

\* C11: every reception of a tool_execution_request is answered exactly
\* once with a response carrying the request's id: in each step the
\* receptions plus the executions awaited before equal the responses sent
\* plus the executions awaited after, per client and request id, and
\* every response a client sends carries a result or an error
C11_ExactlyOneResponse ==
  [][/\ \A c \in Clients, id \in ToolRequestIds :
          Cardinality(ToolRequestsReceived(trace', c, id))
            + Cardinality(TasksOf(execTasks, c, id))
          = Cardinality(ToolResponsesSent(trace', c, id))
            + Cardinality(TasksOf(execTasks', c, id))
     /\ \A i \in DOMAIN trace' :
          (/\ trace'[i].op = "client.sendMessage"
           /\ trace'[i].message.type = "tool_execution_response")
          => CarriesOne(trace'[i].message)]_vars

C11_Witness ==
  \E k \in DOMAIN toolCalls :
    /\ lastCall = "execDone"
    /\ trace = <<ClientSend("c1", ToolExecutionResponse(toolCalls[k].id,
                                                        Undefined, "e1"))>>
    /\ toolCalls[k].promise = "rejected"
    /\ toolCalls[k].value = "e1"
    /\ Len(messageHandlers) = MaxConnects

\* C12: a received tool request goes to the executor when one is set, to
\* the legacy handler when only that is set, and is otherwise answered in
\* the same step with the error "No tool executor configured"
C12_ExecutorThenHandlerThenError ==
  [][\A i \in DOMAIN trace' :
       (/\ trace'[i].op = "client.handleMessage"
        /\ trace'[i].message.type = "tool_execution_request")
       => LET c == trace'[i].client
              id == trace'[i].message.id
              new == TasksOf(execTasks', c, id) \ execTasks
          IN IF toolExecutor[c]
               THEN /\ new # {}
                    /\ \A x \in new : x.via = "executor"
                    /\ ToolResponsesSent(trace', c, id) = {}
             ELSE IF toolRequestHandler[c]
               THEN /\ new # {}
                    /\ \A x \in new : x.via = "handler"
                    /\ ToolResponsesSent(trace', c, id) = {}
             ELSE /\ new = {}
                  /\ \E j \in DOMAIN trace' :
                       /\ j > i
                       /\ trace'[j] =
                            ClientSend(c, ToolExecutionResponse(id, Undefined,
                                         "No tool executor configured"))]_vars

C12_Witness ==
  /\ lastCall = "executeTool"
  /\ toolExecutor["c1"]
  /\ toolRequestHandler["c1"]
  /\ \E i \in DOMAIN trace :
       /\ trace[i].op = "client.handleMessage"
       /\ trace[i].message.type = "tool_execution_request"
       /\ \E x \in TasksOf(execTasks, "c1", trace[i].message.id) :
            x.via = "executor"

\* C13: announceTools() without an executor throws the not-configured
\* error, sends nothing and changes no tool set; with an executor it
\* throws nothing and sends exactly one message, the tool_discovery
\* carrying the executor's tool definitions
C13_AnnounceFailsFastOrSendsOne ==
  [][\A c \in Clients :
       announceTools(c)
       => IF toolExecutor[c]
            THEN /\ thrown' = Undefined
                 /\ trace' = <<ClientSend(c,
                                 ToolDiscoveryMessage(ExecutorTools))>>
            ELSE /\ thrown' =
                      "Tool executor not set up - call setupToolExecution first"
                 /\ trace' = <<>>
                 /\ UNCHANGED clientTools]_vars

C13_Witness ==
  /\ lastCall = "announceTools"
  /\ thrown = "Tool executor not set up - call setupToolExecution first"
  /\ trace = <<>>
  /\ connected["c1"]
  /\ ~toolExecutor["c1"]

\* ------------------------------------------------------- server claims
\* the places of a trace where the server sent something
ServerSends(tr) == {i \in DOMAIN tr : tr[i].op = "server.sendMessage"}

\* C14: when the engine settles a request the server sends exactly one
\* generate_content_response carrying the request's id, with the
\* engine's result and no error when it returned, with null and an
\* error when it threw, and nothing is thrown; a request reaching a
\* server whose engine cannot run is answered at once with an error, and
\* one reaching a running server is awaited
C14_ServerAnswersGeneration ==
  [][/\ \A task \in engineTasks, outcome \in EngineOutcomes :
          \/ /\ thrown' = Undefined
             /\ Cardinality(ServerSends(trace')) = 1
             /\ trace'[1].op = "server.sendMessage"
             /\ trace'[1].clientId = task.clientId
             /\ LET m == trace'[1].message
                IN /\ m.type = "generate_content_response"
                   /\ m.requestId = task.requestId
                   /\ IF outcome.kind = "returned"
                        THEN m.response = outcome.value /\ m.error = Undefined
                        ELSE m.response = Null /\ m.error # Undefined
          \/ ~engineDone(task, CoreServer_engineSettled(task, outcome))
     /\ \A i \in DOMAIN trace' :
          (/\ trace'[i].op = "client.sendMessage"
           /\ trace'[i].message.type = "generate_content_request")
          => /\ thrown' = Undefined
             /\ IF geminiClient
                  THEN /\ ServerSends(trace') = {}
                       /\ \E task \in engineTasks' \ engineTasks :
                            task.requestId = trace'[i].message.id
                  ELSE /\ engineTasks' = engineTasks
                       /\ ServerSends(trace') = {i + 1}
                       /\ LET m == trace'[i + 1].message
                          IN /\ m.type = "generate_content_response"
                             /\ m.requestId = trace'[i].message.id
                             /\ m.response = Null
                             /\ m.error # Undefined]_vars

C14_Witness ==
  /\ lastCall = "engineDone"
  /\ Len(trace) >= 2
  /\ trace[1].op = "server.sendMessage"
  /\ trace[1].message.error = "Unknown error"
  /\ trace[2].op = "client.handleMessage"
  /\ \E g \in DOMAIN genCalls :
       /\ genCalls[g].id = trace[1].message.requestId
       /\ genCalls[g].promise = "rejected"
       /\ genCalls[g].value = "Unknown error"

\* everything but the record of the latest call
programState ==
  <<pendingRequests, clientTools, toolCalls, warned, messageHandlers,
    geminiClient, engineTasks, clientMessageHandlers, clientPendingRequests,
    genCalls, toolExecutor, toolRequestHandler, execTasks, connected>>

\* C15: a message of unknown type handed to server.handleMessage throws
\* nothing, sends nothing (it is only warned about) and changes no state,
\* so whatever is handled next is handled as if it had not arrived
C15_UnknownTypeIgnored ==
  [][\/ /\ UNCHANGED programState
        /\ thrown' = Undefined
        /\ trace' = <<Warn("Unknown message type: unknown")>>
     \/ \A clientId \in ClientIds :
          ~handleMessage(UnknownMessage, clientId)]_vars

C15_Witness ==
  /\ lastCall = "handleMessage"
  /\ trace = <<Warn("Unknown message type: unknown")>>
  /\ thrown = Undefined
  /\ \E k \in DOMAIN toolCalls : StillPending(k)
  /\ \E k \in DOMAIN toolCalls : toolCalls[k].promise = "resolved"

\* ------------------------------------------------------ routing claims
\* the id under which the server hears from client c: every loopback
\* client calls server.handleMessage(message, 'loopback')
ClientIdOf(c) == "loopback"

\* the client ids with a client that called connect() and has not called
\* disconnect() since
ConnectedIds == {ClientIdOf(c) : c \in {x \in Clients : connected[x]}}

\* the clients whose handleMessage was invoked with the message the
\* server sent at place i of a trace
Receivers(tr, i) ==
  {tr[j].client : j \in {x \in DOMAIN tr :
                          /\ x > i
                          /\ tr[x].op = "client.handleMessage"
                          /\ tr[x].message = tr[i].message}}

\* C16: server.sendMessage to a client id that is not connected throws
\* UnknownClient and reaches no client
C16_UnknownClientFails ==
  [][\A clientId \in ClientIds \ ConnectedIds, message \in ServerMessages :
       sendMessage(clientId, message)
       => /\ thrown' = "UnknownClient"
          /\ Receivers(trace', 1) = {}]_vars

\* C17: what the server sends to a client id reaches at most one client,
\* and only a client known under that id
C17_DeliversToAddresseeOnly ==
  [][\A i \in ServerSends(trace') :
       /\ Cardinality(Receivers(trace', i)) <= 1
       /\ \A c \in Receivers(trace', i) :
            ClientIdOf(c) = trace'[i].clientId]_vars

\* C19: executeTool for a client id that is not connected rejects at
\* once with the UnknownClient error of the failed send
C19_SendFailureSurfaces ==
  [][\A clientId \in ClientIds \ ConnectedIds, toolName \in ToolNames :
       executeTool(clientId, toolName)
       => /\ toolCalls'[Len(toolCalls')].promise = "rejected"
          /\ toolCalls'[Len(toolCalls')].value = "UnknownClient"]_vars

\* C18: a client that is not connected hands nothing to the server, and
\* its announceTools, which must send, throws SendError
C18_SendRequiresConnection ==
  [][\A c \in Clients :
       ~connected[c]
       => /\ \A i \in DOMAIN trace' :
               ~(trace'[i].op = "client.sendMessage" /\ trace'[i].client = c)
          /\ (announceTools(c) /\ toolExecutor[c])
               => thrown' = "SendError"]_vars

\* -------------------------------------------------- correlation claims
\* C20: a pending executeTool call is settled by the response carrying
\* its id, with a value of that response, and is left as it was by every
\* other message; a generateContent call changes only when the response
\* carrying its id is delivered, and then takes a value of that response
C20_CorrelationByRequestId ==
  [][/\ \A k \in DOMAIN toolCalls :
          \/ /\ toolCalls'[k] = toolCalls[k]
             /\ StillPending(k) => (StillPending(k))'
             /\ \/ lastCall' # "handleMessage"
                \/ ~StillPending(k)
                \/ \A message \in WellFormedToolResponses :
                     \/ message.requestId # toolCalls[k].id
                     \/ ~handleMessage(message, "loopback")
          \/ /\ StillPending(k)
             /\ toolCalls'[k].promise # "pending"
             /\ toolCalls[k].id \notin DOMAIN pendingRequests'
             /\ \E message \in WellFormedToolResponses :
                  /\ message.requestId = toolCalls[k].id
                  /\ toolCalls'[k].value \in {message.result, message.error}
                  /\ handleMessage(message, "loopback")
     /\ \A g \in DOMAIN genCalls :
          \/ genCalls'[g] = genCalls[g]
          \/ /\ GenPending(g)
             /\ genCalls'[g].promise # "pending"
             /\ \E task \in engineTasks :
                  /\ task.requestId = genCalls[g].id
                  /\ \E response \in EngineResponses(task) :
                       /\ genCalls'[g].value \in
                            {response.response, response.error,
                             ErrorProperty(response.response)}
                       /\ engineDone(task, response)]_vars

C20_Witness ==
  /\ Len(toolCalls) = 2
  /\ Len(genCalls) = 1
  /\ StillPending(1)
  /\ toolCalls[2].promise = "resolved"
  /\ toolCalls[2].value = "r2"
  /\ genCalls[1].promise = "resolved"
  /\ genCalls[1].value = "{text}"
  /\ lastCall = "handleMessage"

\* ------------------------------------------------------ timeout claims
\* the connection: who is subscribed to whom
connection == <<messageHandlers, clientMessageHandlers, connected>>

\* C21: when the timer of one call fires, every other call keeps its
\* promise, its timer and its entry, a call that was pending can still be
\* resolved by a response carrying its id, and the connection is as it was
C21_TimeoutIsLocal ==
  [][/\ \A k \in DOMAIN toolCalls :
          (toolCalls[k].timer = "armed" /\ toolCalls'[k].timer = "fired")
          => /\ \A j \in DOMAIN toolCalls \ {k} :
                  /\ toolCalls'[j] = toolCalls[j]
                  /\ StillPending(j)
                       => /\ (StillPending(j))'
                          /\ ToolProxy_handleToolResponse(State',
                               ToolExecutionResponse(toolCalls[j].id, "r1",
                                                     Undefined)
                             ).toolCalls[j].promise = "resolved"
             /\ UNCHANGED <<genCalls, clientPendingRequests, connection>>
     /\ \A g \in DOMAIN genCalls :
          (genCalls[g].timer = "armed" /\ genCalls'[g].timer = "fired")
          => /\ \A h \in DOMAIN genCalls \ {g} :
                  /\ genCalls'[h] = genCalls[h]
                  /\ GenPending(h)
                       => /\ (GenPending(h))'
                          /\ ProtocolClient_handleMessage(State',
                               genCalls[h].client,
                               GenerateContentResponse(genCalls[h].id,
                                                       "{text}", Undefined)
                             ).genCalls[h].promise = "resolved"
             /\ UNCHANGED <<toolCalls, pendingRequests, connection>>]_vars

C21_Witness ==
  /\ lastCall = "toolTimeout"
  /\ connected["c1"]
  /\ \E k \in DOMAIN toolCalls :
       /\ toolCalls[k].timer = "fired"
       /\ toolCalls[k].promise = "rejected"
  /\ \E j \in DOMAIN toolCalls : StillPending(j)
  /\ \E g \in DOMAIN genCalls : GenPending(g)

\* the state of one executeTool call
Outcome(call) ==
  IF call.promise = "pending" THEN "Sent"
  ELSE IF call.promise = "resolved" THEN "Resolved"
  ELSE IF call.timer = "fired" THEN "Rejected-by-timeout"
  ELSE "Rejected-by-error"

\* C30: an executeTool call leaves Sent at most once: once it is
\* Resolved, Rejected-by-error or Rejected-by-timeout its outcome and its
\* value stay, whatever response, duplicate or timer comes next; a call
\* rejected by its timer carries the timeout message, and a call settled
\* by a response has its timer cleared
C30_SettledExactlyOnce ==
  [][\A k \in DOMAIN toolCalls :
       /\ Outcome(toolCalls[k]) # "Sent"
            => /\ Outcome(toolCalls'[k]) = Outcome(toolCalls[k])
               /\ toolCalls'[k].value = toolCalls[k].value
       /\ Outcome(toolCalls'[k]) = "Rejected-by-timeout"
            => toolCalls'[k].value =
                 "Tool execution timeout: " \o toolCalls[k].tool
       /\ Outcome(toolCalls'[k]) \in {"Resolved", "Rejected-by-error"}
            => /\ toolCalls'[k].timer = "cleared"
               /\ toolCalls[k].id \notin DOMAIN pendingRequests']_vars

C30_Witness ==
  /\ lastCall = "handleMessage"
  /\ warned # {}
  /\ \E k \in DOMAIN toolCalls :
       /\ Outcome(toolCalls[k]) = "Rejected-by-timeout"
       /\ warned = {toolCalls[k].id}
  /\ \E k \in DOMAIN toolCalls :
       /\ Outcome(toolCalls[k]) = "Resolved"
       /\ toolCalls[k].value = "r1"

\* C24: every executeTool call and every generateContent call is
\* eventually settled, if timers that are due eventually fire
C24_EveryCallSettles ==
  /\ \A k \in 1..MaxToolCalls :
       (k \in DOMAIN toolCalls)
         ~> (k \in DOMAIN toolCalls /\ toolCalls[k].promise # "pending")
  /\ \A g \in 1..MaxGenCalls :
       (g \in DOMAIN genCalls)
         ~> (g \in DOMAIN genCalls /\ genCalls[g].promise # "pending")

C24_Witness ==
  /\ \E k \in DOMAIN toolCalls :
       Outcome(toolCalls[k]) = "Rejected-by-timeout"
  /\ \E g \in DOMAIN genCalls :
       /\ genCalls[g].promise = "rejected"
       /\ genCalls[g].value = "Request timeout"
       /\ ~geminiClient

C25_SingleChunkStream ==
  [][\A i \in DOMAIN streams' :
       LET stream == streams'[i]
       IN /\ stream.state \in {"suspendedStart", "awaiting"}
               => stream.chunks = <<>>
          /\ stream.state \in {"suspendedYield", "completed"}
               => /\ genCalls'[stream.call].promise = "resolved"
                  /\ stream.chunks = <<genCalls'[stream.call].value>>
                  /\ stream.error = Undefined
          /\ stream.state = "failed"
               => /\ genCalls'[stream.call].promise = "rejected"
                  /\ stream.chunks = <<>>
                  /\ stream.error = genCalls'[stream.call].value
          /\ i \in DOMAIN streams
               => /\ SubSeq(stream.chunks, 1, Len(streams[i].chunks))
                       = streams[i].chunks
                  /\ streams[i].state \in {"completed", "failed"}
                       => stream = streams[i]
                  /\ \/ streams[i].state # "suspendedYield"
                     \/ stream.state = "completed"
                     \/ ~streamNext(i)]_vars

C25_Witness ==
  /\ Len(streams) = 2
  /\ streams[1].state = "completed"
  /\ streams[1].chunks = <<"{text}">>
  /\ streams[2].state = "failed"
  /\ streams[2].chunks = <<>>
  /\ streams[2].error = "e1"

\* C26: for every client id and tool name the lookups return without
\* error; getClientTools is the stored list, the empty sequence for a
\* client that never announced; hasClientTool holds exactly of the names
\* in getClientTools; getClientToolDefinition is a tool of that list with
\* that name when there is one and undefined otherwise
C26_LookupsAgree ==
  \A clientId \in ClientIds, toolName \in ToolNames :
    LET tools == getClientTools(clientId)
    IN /\ clientId \notin DOMAIN clientTools => tools = <<>>
       /\ clientId \in DOMAIN clientTools => tools = clientTools[clientId]
       /\ hasClientTool(clientId, toolName)
            <=> \E i \in DOMAIN tools : tools[i].name = toolName
       /\ IF hasClientTool(clientId, toolName)
            THEN /\ getClientToolDefinition(clientId, toolName).name
                      = toolName
                 /\ \E i \in DOMAIN tools :
                      tools[i] = getClientToolDefinition(clientId, toolName)
            ELSE getClientToolDefinition(clientId, toolName) = Undefined

C26_Witness ==
  /\ "remote" \notin DOMAIN clientTools
  /\ getClientTools("remote") = <<>>
  /\ hasClientTool("loopback", "A")
  /\ ~hasClientTool("loopback", "B")
  /\ getClientToolDefinition("loopback", "A") = ToolDefinition("A")

\* C27: every tool_execution_request the server sends to a client names
\* a tool that is in that client's discovered tool set at that moment
C27_RequestsNameDiscoveredTools ==
  [][\A i \in ServerSends(trace') :
       trace'[i].message.type = "tool_execution_request"
       => hasClientTool(trace'[i].clientId, trace'[i].message.tool)]_vars

\* ---------------------------------------------------- messages claims
\* v is a string other than the empty one
NonEmptyString(v) == typeof(v) = "string" /\ v.string # ""

\* C28: validate returns true exactly when id is a non-empty string, type
\* is a non-empty string and timestamp is a number, and returns false for
\* every object that lacks id, type or timestamp
C28_ValidateIffWellFormed ==
  probe.fn = "validateProtocolMessage"
  => LET message == probe.args[1]
     IN /\ probe.out = Bool(TRUE)
             <=> /\ NonEmptyString(Get(message, "id"))
                 /\ NonEmptyString(Get(message, "type"))
                 /\ typeof(Get(message, "timestamp")) = "number"
        /\ (/\ "object" \in DOMAIN message
            /\ Properties \ DOMAIN message.object # {})
             => probe.out = Bool(FALSE)

\* the property of the built message that holds the n-th argument
Carries(message, property, n) == Get(message, property) = probe.args[n]

\* C29: every message a factory builds passes validateProtocolMessage,
\* has its variant's type tag and holds each argument under its property
\* unchanged; a response built from request.id has the request's id as
\* its requestId
C29_FactoriesBuildValidMessages ==
  probe.fn \notin {"none", "validateProtocolMessage"}
  => LET message == probe.out
     IN /\ validateProtocolMessage(message) = Bool(TRUE)
        /\ probe.fn = "createGenerateContentRequest"
             => /\ Get(message, "type") = Str("generate_content_request")
                /\ Carries(message, "contents", 1)
                /\ Carries(message, "config", 2)
        /\ probe.fn = "createToolExecutionRequest"
             => /\ Get(message, "type") = Str("tool_execution_request")
                /\ Carries(message, "tool", 1)
                /\ Carries(message, "parameters", 2)
        /\ probe.fn = "createToolExecutionResponse"
             => /\ Get(message, "type") = Str("tool_execution_response")
                /\ Carries(message, "requestId", 1)
                /\ Carries(message, "result", 2)
                /\ Carries(message, "error", 3)
                /\ probe.of # JSUndefined
                     => Get(message, "requestId") = Get(probe.of, "id")
        /\ probe.fn = "createStreamingResponse"
             => /\ Get(message, "type") = Str("streaming_response")
                /\ Carries(message, "requestId", 1)
                /\ Carries(message, "chunk", 2)
                /\ Carries(message, "isComplete", 3)

C29_Witness ==
  /\ probe.fn = "createToolExecutionResponse"
  /\ probe.of # JSUndefined
  /\ Get(probe.of, "type") = Str("tool_execution_request")
  /\ Get(probe.of, "id") = Str("k1")
  /\ Get(probe.out, "id") = Str("k2")
  /\ Get(probe.out, "requestId") = Str("k1")
  /\ Get(probe.out, "result") = Obj([x |-> Num(1)])

\* ------------------------------------------------------------ id claims
\* C31: a call that is issued takes an id that no pending request of its
\* issuer holds, so that no pending entry is overwritten
C31_FreshAmongPending ==
  [][/\ Len(toolCalls') > Len(toolCalls)
          => /\ toolCalls'[Len(toolCalls')].id \notin DOMAIN pendingRequests
             /\ \A id \in DOMAIN pendingRequests :
                  id \in DOMAIN pendingRequests'
                  => pendingRequests'[id] = pendingRequests[id]
     /\ Len(genCalls') > Len(genCalls)
          => LET call == genCalls'[Len(genCalls')]
             IN /\ call.id \notin DOMAIN clientPendingRequests[call.client]
                /\ \A id \in DOMAIN clientPendingRequests[call.client] :
                     id \in DOMAIN clientPendingRequests'[call.client]
                     => clientPendingRequests'[call.client][id]
                          = clientPendingRequests[call.client][id]]_vars

\* ------------------------------------------------- response-shape claims
\* C32: no response this code builds holds both a payload and an error:
\* a tool_execution_response a client sends has no result when it has an
\* error, and a generate_content_response the server sends has a null
\* response when it has an error
C32_PayloadOrErrorNotBoth ==
  [][\A i \in DOMAIN trace' :
       /\ (/\ trace'[i].op = "client.sendMessage"
           /\ trace'[i].message.type = "tool_execution_response")
            => \/ trace'[i].message.result = Undefined
               \/ trace'[i].message.error = Undefined
       /\ (/\ trace'[i].op = "server.sendMessage"
           /\ trace'[i].message.type = "generate_content_response")
            => \/ trace'[i].message.response \in {Null, Undefined}
               \/ trace'[i].message.error = Undefined]_vars

C32_Witness ==
  /\ lastCall = "execDone"
  /\ \E k \in DOMAIN toolCalls :
       trace[1] = ClientSend("c1", ToolExecutionResponse(toolCalls[k].id,
                                                         Undefined, "e1"))
  /\ \E g \in DOMAIN genCalls :
       /\ genCalls[g].promise = "rejected"
       /\ genCalls[g].value = "e1"
  /\ \E g \in DOMAIN genCalls :
       /\ genCalls[g].promise = "resolved"
       /\ genCalls[g].value = "{text}"

\* ------------------------------------------------------ ordering claims
\* client c1 sent this
SentByC1(event) == event.op = "client.sendMessage" /\ event.client = "c1"

\* C33: what a client sends reaches server.handleMessage in the order
\* sent: within every call and callback the messages the client sent are,
\* one for one and in order, the messages handleMessage was called with
\* as from 'loopback', so none is held back behind a request that still
\* awaits the engine
C33_DispatchedInSendOrder ==
  [][LET sent == SelectSeq(trace', SentByC1)
     IN /\ Len(arrivals') = Len(sent)
        /\ \A i \in DOMAIN sent :
             arrivals'[i] = [clientId |-> "loopback",
                             message |-> sent[i].message]]_vars

C33_Witness ==
  /\ lastCall = "execDone"
  /\ engineTasks # {}
  /\ Len(arrivals) = 1
  /\ arrivals[1].message.type = "tool_execution_response"
  /\ \E task \in engineTasks, g \in DOMAIN genCalls :
       /\ task.requestId = genCalls[g].id
       /\ genCalls[g].promise = "pending"

\* the responses to request id that the latest call saw client c send
ResponsesDuring(tr, id) ==
  {i \in DOMAIN tr :
     /\ tr[i].op = "client.sendMessage"
     /\ tr[i].message.type = "tool_execution_response"
     /\ tr[i].message.requestId = id}

\* the generate_content_responses to request id that the latest call saw
\* client c receive
ReceivedDuring(tr, c, id) ==
  {i \in DOMAIN tr :
     /\ tr[i].op = "client.handleMessage"
     /\ tr[i].client = c
     /\ tr[i].message.type = "generate_content_response"
     /\ tr[i].message.requestId = id}

\* C34: the pending entry is stored before the request is sent: a
\* response that is handled while executeTool or generateContent is still
\* sending finds the entry and settles the new call, and with a single
\* subscriber nothing is warned about as an unknown id
C34_RegisteredBeforeSend ==
  [][/\ Len(toolCalls') > Len(toolCalls)
          => LET k == Len(toolCalls')
                 during == ResponsesDuring(trace', toolCalls'[k].id)
             IN during # {}
                => /\ toolCalls'[k].promise = "rejected"
                   /\ \E i \in during :
                        /\ \A j \in during : i <= j
                        /\ toolCalls'[k].value = trace'[i].message.error
                   /\ toolCalls'[k].timer = "cleared"
                   /\ Len(messageHandlers) = 1 => warned' = warned
     /\ Len(genCalls') > Len(genCalls)
          => LET g == Len(genCalls')
                 during == ReceivedDuring(trace', genCalls'[g].client,
                                          genCalls'[g].id)
             IN during # {}
                => /\ genCalls'[g].promise = "rejected"
                   /\ \E i \in during :
                        genCalls'[g].value = trace'[i].message.error
                   /\ genCalls'[g].id \notin
                        DOMAIN clientPendingRequests'[genCalls'[g].client]
    ]_vars

C34_Witness ==
  /\ lastCall = "generateContent"
  /\ ~geminiClient
  /\ \E g \in DOMAIN genCalls :
       /\ ReceivedDuring(trace, "c1", genCalls[g].id) # {}
       /\ genCalls[g].promise = "rejected"
       /\ genCalls[g].timer = "armed"
  /\ \E k \in DOMAIN toolCalls :
       /\ toolCalls[k].promise = "rejected"
       /\ toolCalls[k].value = "No tool executor configured"
       /\ toolCalls[k].timer = "cleared"

\* ---------------------------------------------------- teardown claims
\* C35: once disconnect() has returned, nothing the server sends is
\* dispatched to that client's handleMessage: every dispatch is to a
\* client whose latest call of connect/disconnect was connect
C35_NoDispatchAfterDisconnect ==
  [][\A i \in DOMAIN trace' :
       trace'[i].op = "client.handleMessage" => connected[trace'[i].client]
    ]_vars

\* C36: a message the server sends is dispatched to a client's
\* handleMessage at most once, however often the client called connect()
C36_DispatchedOnce ==
  [][\A i \in DOMAIN trace', j \in DOMAIN trace' :
       (/\ trace'[i].op = "client.handleMessage"
        /\ trace'[j].op = "client.handleMessage"
        /\ trace'[i].client = trace'[j].client
        /\ trace'[i].message = trace'[j].message)
       => i = j]_vars

\* -------------------------------------------------------- origin claims
\* C38: a response that carries the id of a pending executeTool call but
\* arrives from another client id than the call was issued against
\* leaves the call as it is
C38_SettledByAddresseeOnly ==
  [][\A k \in DOMAIN toolCalls, message \in PlainToolResponses,
        clientId \in ClientIds :
       (/\ StillPending(k)
        /\ message.requestId = toolCalls[k].id
        /\ clientId # toolCalls[k].clientId)
       => \/ /\ toolCalls'[k] = toolCalls[k]
             /\ toolCalls[k].id \in DOMAIN pendingRequests'
          \/ ~handleMessage(message, clientId)]_vars

\* ------------------------------------------------------ resolver claims
\* C39: a pending generateContent call whose response the client receives
\* is rejected exactly when the message has its error field set: without
\* one it resolves with response.response whatever that holds, with one
\* (any string) it rejects with it
C39_RejectsIffErrorSet ==
  [][\A g \in DOMAIN genCalls :
       LET during == ReceivedDuring(trace', genCalls[g].client,
                                    genCalls[g].id)
       IN (GenPending(g) /\ during # {})
          => \E i \in during :
               /\ \A j \in during : i <= j
               /\ IF trace'[i].message.error = Undefined
                    THEN /\ genCalls'[g].promise = "resolved"
                         /\ genCalls'[g].value = trace'[i].message.response
                    ELSE /\ genCalls'[g].promise = "rejected"
                         /\ genCalls'[g].value = trace'[i].message.error
    ]_vars

\* the generate_content_responses with this id the server sent in a call
GenResponsesSent(tr, id) ==
  {i \in ServerSends(tr) :
     /\ tr[i].message.type = "generate_content_response"
     /\ tr[i].message.requestId = id}

\* C40: for each generate_content_request the server handles it sends
\* exactly one generate_content_response with the request's id, whether
\* the request is answered at once or after the engine has settled, and
\* also when delivering the success response to a handler fails
C40_OneResponsePerRequest ==
  [][/\ \A task \in engineTasks :
          (lastCall' = "engineDone" /\ task \notin engineTasks')
            => Cardinality(GenResponsesSent(trace', task.requestId)) = 1
     /\ \A g \in DOMAIN genCalls' :
          (g \notin DOMAIN genCalls /\ engineTasks' = engineTasks)
            => Cardinality(GenResponsesSent(trace', genCalls'[g].id)) = 1]_vars

\* C37: a generateContent call that has settled, by a response, by its
\* timer or because sending the request failed, has no entry left in
\* its client's pending map
C37_SettledHasNoEntry ==
  \A g \in DOMAIN genCalls :
    genCalls[g].promise # "pending"
      => genCalls[g].id \notin DOMAIN clientPendingRequests[genCalls[g].client]


====
